---- MODULE Spec2Model ----
(***************************************************************************)
(* Model of server/services/estonian-validator.py (class EstonianValidator *)
(* and the request dispatch in __main__).  Words, sentences, explanations  *)
(* and question texts are strings; suffix tests, whitespace splitting,     *)
(* lower-casing, substring search and the quoted-sentence regex are        *)
(* computed character by character as the Python code computes them.       *)
(***************************************************************************)
EXTENDS Integers, Sequences, FiniteSets, TLC

VARIABLES pc, sentence, error_word, explanation, quiz_data, pronoun, verb,
          qi, results, result

vars == <<pc, sentence, error_word, explanation, quiz_data, pronoun, verb,
          qi, results, result>>

\* Bounds of the model.
MaxWords == 3
MaxVerbLen == 3
MaxQuestions == 3

\* An optional string: Python's None, or a str value.
None == [is_none |-> TRUE]
Str(v) == [is_none |-> FALSE, value |-> v]

\* The value of `result` before the handler has run.
NoResult == [pending |-> TRUE]

(***************************************************************************)
(* String primitives.                                                      *)
(***************************************************************************)
\* str.endswith
EndsWith(w, e) ==
    /\ Len(w) >= Len(e)
    /\ SubSeq(w, Len(w) - Len(e) + 1, Len(w)) = e

\* any(w.endswith(e) for e in endings), endings a tuple of strings
AnyEndsWith(w, endings) ==
    \E k \in 1..Len(endings) : EndsWith(w, endings[k])

\* kw in s, for strings
Contains(s, kw) ==
    \E i \in 1..(Len(s) - Len(kw) + 1) : SubSeq(s, i, i + Len(kw) - 1) = kw

Whitespace == {" "}

\* str.split(): maximal runs of non-whitespace characters, in order.
RECURSIVE SplitFrom(_, _, _)
SplitFrom(s, i, cur) ==
    IF i > Len(s)
    THEN IF cur = "" THEN <<>> ELSE <<cur>>
    ELSE LET c == SubSeq(s, i, i) IN
         IF c \in Whitespace
         THEN IF cur = "" THEN SplitFrom(s, i + 1, "")
                          ELSE <<cur>> \o SplitFrom(s, i + 1, "")
         ELSE SplitFrom(s, i + 1, cur \o c)

split(s) == SplitFrom(s, 1, "")

UpperChars == <<"A", "B", "C", "D", "E", "F", "G", "H", "I", "J", "K", "L", "M",
                "N", "O", "P", "Q", "R", "S", "T", "U", "V", "W", "X", "Y", "Z">>
LowerChars == <<"a", "b", "c", "d", "e", "f", "g", "h", "i", "j", "k", "l", "m",
                "n", "o", "p", "q", "r", "s", "t", "u", "v", "w", "x", "y", "z">>

LowerChar(c) ==
    IF \E k \in 1..Len(UpperChars) : UpperChars[k] = c
    THEN LowerChars[CHOOSE k \in 1..Len(UpperChars) : UpperChars[k] = c]
    ELSE c

\* str.lower()
RECURSIVE lower(_)
lower(s) ==
    IF s = "" THEN ""
    ELSE LowerChar(SubSeq(s, 1, 1)) \o lower(Tail(s))

\* list.index(x): 0-based index of the first occurrence (x is in ws)
index(ws, x) ==
    (CHOOSE k \in 1..Len(ws) : ws[k] = x /\ \A j \in 1..(k - 1) : ws[j] # x) - 1

\* x in list
InList(x, ws) == \E k \in 1..Len(ws) : ws[k] = x

(***************************************************************************)
(* Linguistic tables (__init__).                                           *)
(***************************************************************************)
pronoun_verb_agreement ==
    [p \in {"ma", "sa", "ta", "me", "te", "nad"} |->
        CASE p = "ma"  -> [person |-> 1, number |-> "sing", endings |-> <<"n">>]
          [] p = "sa"  -> [person |-> 2, number |-> "sing", endings |-> <<"d">>]
          [] p = "ta"  -> [person |-> 3, number |-> "sing", endings |-> <<"b", "ø">>]
          [] p = "me"  -> [person |-> 1, number |-> "plur", endings |-> <<"me">>]
          [] p = "te"  -> [person |-> 2, number |-> "plur", endings |-> <<"te">>]
          [] p = "nad" -> [person |-> 3, number |-> "plur", endings |-> <<"vad", "id">>]]

\* dict order: partitive, then genitive
adjective_patterns ==
    << [case_type |-> "partitive",
        adjective |-> <<"t", "at", "ut", "et">>,
        noun      |-> <<"t", "i", "d", "e", "a", "u">>],
       [case_type |-> "genitive",
        adjective |-> <<"ø", "a", "e">>,
        noun      |-> <<"i", "e", "a", "u">>] >>

adj_endings == <<"ne", "line", "lik", "kas", "ine">>

case_keywords == <<"partitiiv", "genitiiv", "illatiiv", "inessiiv",
                   "elatiiv", "allatiiv", "adessiiv", "ablatiiv",
                   "partitivo", "genitivo", "ilativo", "inessivo",
                   "caso", "requiere">>

\* the wrong-suffix list of the 3rd-person-singular special case
ta_wrong_endings == <<"n", "d", "me", "te", "vad">>

(***************************************************************************)
(* Checkers.                                                               *)
(***************************************************************************)
\* the for-loop over expected['endings']: the sentinel is skipped
RECURSIVE EndingLoop(_, _, _)
EndingLoop(v, endings, k) ==
    IF k > Len(endings) THEN FALSE
    ELSE IF endings[k] = "ø" THEN EndingLoop(v, endings, k + 1)
    ELSE IF EndsWith(v, endings[k]) THEN TRUE
    ELSE EndingLoop(v, endings, k + 1)

\* variant: the "no suffix" sentinel accepted as a match
check_verb_agreement_sentinel(p, v) ==
    IF p \notin DOMAIN pronoun_verb_agreement THEN TRUE
    ELSE IF p = "ta" /\ ~AnyEndsWith(v, ta_wrong_endings) THEN TRUE
    ELSE \E k \in 1..Len(pronoun_verb_agreement[p].endings) :
            \/ pronoun_verb_agreement[p].endings[k] = "ø"
            \/ EndsWith(v, pronoun_verb_agreement[p].endings[k])

check_verb_agreement(p, v) ==
    IF p \notin DOMAIN pronoun_verb_agreement THEN TRUE
    ELSE IF p = "ta" /\ ~AnyEndsWith(v, ta_wrong_endings) THEN TRUE
    ELSE EndingLoop(v, pronoun_verb_agreement[p].endings, 1)

\* variant: the suffix test applied to the second word of the pair
is_adjective_noun_pair_second(word1, word2) == AnyEndsWith(word2, adj_endings)

is_adjective_noun_pair(word1, word2) == AnyEndsWith(word1, adj_endings)

\* variant: either half of a table row is enough
check_case_agreement_either(adjective, noun) ==
    \E r \in 1..Len(adjective_patterns) :
        \/ AnyEndsWith(adjective, adjective_patterns[r].adjective)
        \/ AnyEndsWith(noun, adjective_patterns[r].noun)

check_case_agreement(adjective, noun) ==
    \E r \in 1..Len(adjective_patterns) :
        /\ AnyEndsWith(adjective, adjective_patterns[r].adjective)
        /\ AnyEndsWith(noun, adjective_patterns[r].noun)

\* variant: the explanation is searched without lower-casing
is_case_error_nolower(word, expl) ==
    \E k \in 1..Len(case_keywords) : Contains(expl, case_keywords[k])

is_case_error(word, expl) ==
    LET lowered == lower(expl)
    IN  \E k \in 1..Len(case_keywords) : Contains(lowered, case_keywords[k])

(***************************************************************************)
(* Error aggregator: validate_single_error.                                *)
(* acc is the pair of locals (error_count, error_details).                 *)
(***************************************************************************)
AddVerbFinding(acc, v, pos) ==
    [error_count   |-> acc.error_count + 1,
     error_details |-> Append(acc.error_details,
                         [type |-> "verb_agreement", word |-> v, position |-> pos])]

\* variant: a case_agreement finding counted once
AddCaseAgreementFinding_one(acc, w1, w2, i) ==
    [error_count   |-> acc.error_count + 1,
     error_details |-> Append(acc.error_details,
                         [type |-> "case_agreement", words |-> <<w1, w2>>,
                          positions |-> <<i, i + 1>>])]

AddCaseAgreementFinding(acc, w1, w2, i) ==
    [error_count   |-> acc.error_count + 2,
     error_details |-> Append(acc.error_details,
                         [type |-> "case_agreement", words |-> <<w1, w2>>,
                          positions |-> <<i, i + 1>>])]

AddCaseErrorFinding(acc, w, idx) ==
    [error_count   |-> acc.error_count + 1,
     error_details |-> Append(acc.error_details,
                         [type |-> "case_error", word |-> w, position |-> idx])]

\* for i, word in enumerate(words): ... (i is 0-based, words[i] is ws[i + 1])
RECURSIVE VerbLoop(_, _, _)
VerbLoop(ws, i, acc) ==
    IF i >= Len(ws) THEN acc
    ELSE IF /\ ws[i + 1] \in DOMAIN pronoun_verb_agreement
            /\ i + 1 < Len(ws)
            /\ ~check_verb_agreement(ws[i + 1], ws[i + 2])
         THEN VerbLoop(ws, i + 1, AddVerbFinding(acc, ws[i + 2], i + 1))
         ELSE VerbLoop(ws, i + 1, acc)

\* for i in range(len(words) - 1): ...
RECURSIVE CaseLoop(_, _, _)
CaseLoop(ws, i, acc) ==
    IF i >= Len(ws) - 1 THEN acc
    ELSE IF /\ is_adjective_noun_pair(ws[i + 1], ws[i + 2])
            /\ ~check_case_agreement(ws[i + 1], ws[i + 2])
         THEN CaseLoop(ws, i + 1, AddCaseAgreementFinding(acc, ws[i + 1], ws[i + 2], i))
         ELSE CaseLoop(ws, i + 1, acc)

\* if error_word in words: ...
CaseErrorStep(ws, ew, expl, acc) ==
    IF InList(ew, ws) /\ is_case_error(ew, expl)
    THEN AddCaseErrorFinding(acc, ew, index(ws, ew))
    ELSE acc

\* variant: valid as soon as anything was found
Verdict_atleast(acc) ==
    [valid       |-> acc.error_count >= 1,
     error_count |-> acc.error_count,
     errors      |-> acc.error_details,
     message     |-> IF acc.error_count = 1
                     THEN "Single error detected"
                     ELSE "Multiple errors detected: " \o ToString(acc.error_count)]

\* the returned dict
Verdict(acc) ==
    [valid       |-> acc.error_count = 1,
     error_count |-> acc.error_count,
     errors      |-> acc.error_details,
     message     |-> IF acc.error_count = 1
                     THEN "Single error detected"
                     ELSE "Multiple errors detected: " \o ToString(acc.error_count)]

validate_single_error(s, ew, expl) ==
    LET ws == split(s)
        a0 == [error_count |-> 0, error_details |-> <<>>]
        a1 == VerbLoop(ws, 0, a0)
        a2 == CaseLoop(ws, 0, a1)
        a3 == CaseErrorStep(ws, ew, expl, a2)
    IN  Verdict(a3)

(***************************************************************************)
(* Inputs of the validate_single request.                                  *)
(***************************************************************************)
ValidateVocab == {"ma", "ta", "loen", "loed", "punane", "ohtlik", "rikkas", "maja"}

RECURSIVE Join(_)
Join(ws) ==
    IF ws = <<>> THEN ""
    ELSE IF Len(ws) = 1 THEN ws[1]
    ELSE ws[1] \o " " \o Join(Tail(ws))

TokenSeqs(vocab, n) == UNION {[1..k -> vocab] : k \in 0..n}

\* sentences with irregular whitespace
PaddedSentences == {" ", "  ma  loed ", " ohtlik maja", "punane  maja "}

ValidateSentences ==
    {Join(ws) : ws \in TokenSeqs(ValidateVocab, MaxWords)} \cup PaddedSentences

ValidateErrorWords == {"loed", "maja", "ohtlik", "puudub"}

Explanations == {"peab olema partitiiv", "Vale GENITIIV", "verbi vorm on vale", ""}

InitValidate ==
    /\ pc = "start"
    /\ sentence \in ValidateSentences
    /\ error_word \in ValidateErrorWords
    /\ explanation \in Explanations
    /\ quiz_data = <<>>
    /\ pronoun = ""
    /\ verb = ""
    /\ qi = 0
    /\ results = <<>>
    /\ result = NoResult

\* action 'validate_single' of __main__
ValidateSingle ==
    /\ pc = "start"
    /\ result' = validate_single_error(sentence, error_word, explanation)
    /\ pc' = "done"
    /\ UNCHANGED <<sentence, error_word, explanation, quiz_data, pronoun, verb,
                   qi, results>>

NextValidate == ValidateSingle

SpecValidate == InitValidate /\ [][NextValidate]_vars

(***************************************************************************)
(* Fix suggester: suggest_fix.                                             *)
(***************************************************************************)
\* str.rstrip(chars): drop trailing characters while they are in chars
RECURSIVE rstrip(_, _)
rstrip(s, chars) ==
    IF s # "" /\ Contains(chars, SubSeq(s, Len(s), Len(s)))
    THEN rstrip(SubSeq(s, 1, Len(s) - 1), chars)
    ELSE s

\* the if/elif chain over the pronoun
GenerateVerbForm(p, ew) ==
    CASE p = "ma"  -> ew \o "n"
      [] p = "sa"  -> ew \o "d"
      [] p = "ta"  -> rstrip(rstrip(ew, "n"), "d")
      [] p = "me"  -> ew \o "me"
      [] p = "te"  -> ew \o "te"
      [] p = "nad" -> ew \o "vad"

\* 0-based index of the last occurrence
rindex(ws, x) ==
    (CHOOSE k \in 1..Len(ws) : ws[k] = x /\ \A j \in (k + 1)..Len(ws) : ws[j] # x) - 1

\* list subscript with Python's negative indices (i is 0-based, i >= -len)
Subscript(ws, i) == IF i < 0 THEN ws[Len(ws) + i + 1] ELSE ws[i + 1]

\* variant: the flagged word located at its last occurrence
suggest_fix_last(s, ew) ==
    LET ws == split(s) IN
    IF ~InList(ew, ws) THEN None
    ELSE LET idx == rindex(ws, ew) IN
         IF idx > 0 /\ Subscript(ws, idx - 1) \in DOMAIN pronoun_verb_agreement
         THEN Str(GenerateVerbForm(Subscript(ws, idx - 1), ew))
         ELSE None

\* variant: no idx > 0 guard, so words[idx-1] wraps to the last token
suggest_fix_noguard(s, ew) ==
    LET ws == split(s) IN
    IF ~InList(ew, ws) THEN None
    ELSE LET idx == index(ws, ew) IN
         IF Subscript(ws, idx - 1) \in DOMAIN pronoun_verb_agreement
         THEN Str(GenerateVerbForm(Subscript(ws, idx - 1), ew))
         ELSE None

suggest_fix(s, ew) ==
    LET ws == split(s) IN
    IF ~InList(ew, ws) THEN None
    ELSE LET idx == index(ws, ew) IN
         IF idx > 0 /\ Subscript(ws, idx - 1) \in DOMAIN pronoun_verb_agreement
         THEN Str(GenerateVerbForm(Subscript(ws, idx - 1), ew))
         ELSE None

SuggestVocab == {"ma", "sa", "ta", "me", "te", "nad", "loe", "linn", "teed"}

SuggestSentences ==
    {Join(ws) : ws \in TokenSeqs(SuggestVocab, MaxWords)} \cup PaddedSentences

SuggestErrorWords == {"loe", "linn", "teed", "ma", "puudub", ""}

InitSuggest ==
    /\ pc = "start"
    /\ sentence \in SuggestSentences
    /\ error_word \in SuggestErrorWords
    /\ explanation = ""
    /\ quiz_data = <<>>
    /\ pronoun = ""
    /\ verb = ""
    /\ qi = 0
    /\ results = <<>>
    /\ result = NoResult

\* action 'suggest_fix' of __main__
SuggestFix ==
    /\ pc = "start"
    /\ result' = suggest_fix(sentence, error_word)
    /\ pc' = "done"
    /\ UNCHANGED <<sentence, error_word, explanation, quiz_data, pronoun, verb,
                   qi, results>>

NextSuggest == SuggestFix

SpecSuggest == InitSuggest /\ [][NextSuggest]_vars

(***************************************************************************)
(* Verb agreement checker called on its own.                               *)
(***************************************************************************)
VerbAlphabet == {"n", "d", "m", "e", "t", "v", "a", "i", "b", "ø"}

RECURSIVE Concat(_)
Concat(cs) == IF cs = <<>> THEN "" ELSE cs[1] \o Concat(Tail(cs))

Verbs == {Concat(cs) : cs \in TokenSeqs(VerbAlphabet, MaxVerbLen)}

Subjects == DOMAIN pronoun_verb_agreement \cup {"mina", ""}

InitVerb ==
    /\ pc = "start"
    /\ pronoun \in Subjects
    /\ verb \in Verbs
    /\ sentence = ""
    /\ error_word = ""
    /\ explanation = ""
    /\ quiz_data = <<>>
    /\ qi = 0
    /\ results = <<>>
    /\ result = NoResult

CheckVerbAgreement ==
    /\ pc = "start"
    /\ result' = check_verb_agreement(pronoun, verb)
    /\ pc' = "done"
    /\ UNCHANGED <<sentence, error_word, explanation, quiz_data, pronoun, verb,
                   qi, results>>

NextVerb == CheckVerbAgreement

SpecVerb == InitVerb /\ [][NextVerb]_vars

(***************************************************************************)
(* Quiz batch runner: analyze_error_detection_quiz.                        *)
(***************************************************************************)
\* a failed re.search, and a match object with its group 1
NoMatch == [matched |-> FALSE]
Match(g) == [matched |-> TRUE, group |-> g]

Quote == "'"

\* a match of '([^']+)' starting at position i
QuoteMatchAt(q, i) ==
    /\ SubSeq(q, i, i) = Quote
    /\ \E j \in (i + 2)..Len(q) :
          /\ SubSeq(q, j, j) = Quote
          /\ \A k \in (i + 1)..(j - 1) : SubSeq(q, k, k) # Quote

\* re.search(r"'([^']+)'", q): group 1 of the leftmost match, or no match
re_search(q) ==
    IF \E i \in 1..Len(q) : QuoteMatchAt(q, i)
    THEN LET i == CHOOSE a \in 1..Len(q) :
                     QuoteMatchAt(q, a) /\ \A b \in 1..(a - 1) : ~QuoteMatchAt(q, b)
             j == CHOOSE c \in (i + 2)..Len(q) :
                     /\ SubSeq(q, c, c) = Quote
                     /\ \A k \in (i + 1)..(c - 1) : SubSeq(q, k, k) # Quote
         IN  Match(SubSeq(q, i + 1, j - 1))
    ELSE NoMatch

\* quiz_data.get('questions', [])
Questions(qd) == IF "questions" \in DOMAIN qd THEN qd.questions ELSE <<>>

\* variant: a record without a quoted sentence is validated with an empty one
LoopBody_nocontinue(res, question) ==
    LET m == re_search(question.question)
        sent == IF m.matched THEN m.group ELSE ""
    IN  Append(res, [question   |-> question.question,
                     sentence   |-> sent,
                     error_word |-> question.correctAnswer,
                     validation |-> validate_single_error(sent,
                                       question.correctAnswer, question.explanation)])

\* one iteration of the for-loop: the new value of results
LoopBody(res, question) ==
    LET m == re_search(question.question) IN
    IF ~m.matched THEN res
    ELSE Append(res, [question   |-> question.question,
                      sentence   |-> m.group,
                      error_word |-> question.correctAnswer,
                      validation |-> validate_single_error(m.group,
                                        question.correctAnswer, question.explanation)])

\* the summary dict
Summary(res) ==
    LET valid_count == Cardinality({k \in 1..Len(res) : res[k].validation.valid})
    IN  [total_questions   |-> Len(res),
         valid_questions   |-> valid_count,
         invalid_questions |-> Len(res) - valid_count,
         details           |-> res,
         all_valid         |-> valid_count = Len(res)]

QuestionRecords ==
    { [question |-> "Leia viga: 'ma loed'", correctAnswer |-> "loed",
       explanation |-> "verbi vorm on vale"],
      [question |-> "Leia viga lauses", correctAnswer |-> "viga",
       explanation |-> "peab olema partitiiv"],
      [question |-> "Viga: 'ohtlik maja' ja 'ma loen'", correctAnswer |-> "ohtlik",
       explanation |-> "Vale GENITIIV"],
      [question |-> "Tühi '' lause", correctAnswer |-> "lause",
       explanation |-> ""],
      [question |-> "'' ja 'ma loen'", correctAnswer |-> "loen",
       explanation |-> ""],
      [question |-> "Mis on 'viga", correctAnswer |-> "viga",
       explanation |-> "caso"] }

Quizzes ==
    {[questions |-> qs] : qs \in TokenSeqs(QuestionRecords, MaxQuestions)}
    \cup {[title |-> "harjutus"]}

InitQuiz ==
    /\ pc = "loop"
    /\ quiz_data \in Quizzes
    /\ qi = 0
    /\ results = <<>>
    /\ result = NoResult
    /\ sentence = ""
    /\ error_word = ""
    /\ explanation = ""
    /\ pronoun = ""
    /\ verb = ""

\* one pass through the body of the for-loop
QuizIterate ==
    /\ pc = "loop"
    /\ qi < Len(Questions(quiz_data))
    /\ results' = LoopBody(results, Questions(quiz_data)[qi + 1])
    /\ qi' = qi + 1
    /\ UNCHANGED <<pc, sentence, error_word, explanation, quiz_data, pronoun,
                   verb, result>>

\* loop exhausted: summary and return
QuizSummary ==
    /\ pc = "loop"
    /\ qi = Len(Questions(quiz_data))
    /\ result' = Summary(results)
    /\ pc' = "done"
    /\ UNCHANGED <<sentence, error_word, explanation, quiz_data, pronoun, verb,
                   qi, results>>

NextQuiz == QuizIterate \/ QuizSummary

SpecQuiz == InitQuiz /\ [][NextQuiz]_vars

(***************************************************************************)
(* Properties of validate_single_error.                                    *)
(***************************************************************************)
Done == pc = "done"

FindingsOfType(errs, t) == {k \in 1..Len(errs) : errs[k].type = t}

\* C1: the verdict is valid if and only if error_count is 1, at every
\* total weight; a sentence without tokens has error_count 0 and is not valid.
C1_ValidIffExactlyOne ==
    Done =>
        /\ result.valid \in BOOLEAN
        /\ result.valid <=> (result.error_count = 1)
        /\ split(sentence) = <<>> => (result.error_count = 0 /\ ~result.valid)

C1_Witness ==
    Done /\ result.valid /\ result.error_count = 1 /\ Len(result.errors) = 1

\* C2: error_count is the number of verb_agreement findings plus twice the
\* number of case_agreement findings plus the number of case_error findings
\* of the returned errors list, and the list holds no other kind of finding.
C2_WeightLaw ==
    Done =>
        /\ \A k \in 1..Len(result.errors) :
              result.errors[k].type \in {"verb_agreement", "case_agreement", "case_error"}
        /\ result.error_count =
              Cardinality(FindingsOfType(result.errors, "verb_agreement"))
              + 2 * Cardinality(FindingsOfType(result.errors, "case_agreement"))
              + Cardinality(FindingsOfType(result.errors, "case_error"))

C2_Witness ==
    /\ Done
    /\ FindingsOfType(result.errors, "verb_agreement") # {}
    /\ FindingsOfType(result.errors, "case_agreement") # {}
    /\ FindingsOfType(result.errors, "case_error") # {}

\* a verb_agreement finding and a case_agreement finding for one pair (i, i+1)
SamePairOverlap(errs) ==
    \E a \in FindingsOfType(errs, "verb_agreement") :
        \E b \in FindingsOfType(errs, "case_agreement") :
            errs[b].positions = <<errs[a].position - 1, errs[a].position>>

\* a verb_agreement finding at token i+1 and a case_agreement finding for
\* the pair (i+1, i+2)
SharedTokenOverlap(errs) ==
    \E a \in FindingsOfType(errs, "verb_agreement") :
        \E b \in FindingsOfType(errs, "case_agreement") :
            errs[b].positions = <<errs[a].position, errs[a].position + 1>>

\* every known pronoun followed by every word of the vocabulary
PronounLedSentences ==
    {Join(<<p, w>>) : p \in DOMAIN pronoun_verb_agreement, w \in ValidateVocab}

\* C7 as stated: some sentence yields a verb_agreement finding and a
\* case_agreement finding for the same adjacent pair.
C7_SamePairOverlapReachable ==
    \E s \in ValidateSentences \cup PronounLedSentences :
        SamePairOverlap(validate_single_error(s, error_word, explanation).errors)

\* C7 amended: no pair (i, i+1) yields both a verb_agreement and a
\* case_agreement finding, since no known pronoun is adjective-shaped; when
\* the two kinds of finding implicate the same token (the verb at i+1 being
\* the adjective of the pair (i+1, i+2)) both are kept and both are counted.
C7_NoSamePairOverlap ==
    /\ \A p \in DOMAIN pronoun_verb_agreement : ~is_adjective_noun_pair(p, "")
    /\ Done =>
        /\ ~SamePairOverlap(result.errors)
        /\ SharedTokenOverlap(result.errors) => result.error_count >= 3

C7_Witness ==
    Done /\ SharedTokenOverlap(result.errors) /\ result.error_count >= 3

\* the case keywords as the claim's keyword test sees them
KeywordTest(expl) ==
    LET lowered == lower(expl)
    IN  \E kw \in {"partitiiv", "genitiiv", "illatiiv", "inessiiv", "elatiiv",
                   "allatiiv", "adessiiv", "ablatiiv", "partitivo", "genitivo",
                   "ilativo", "inessivo", "caso", "requiere"} :
            Contains(lowered, kw)

\* C9: a case_error finding is emitted iff error_word equals some token and
\* the lower-cased explanation contains a case keyword; there is at most one,
\* it is the last finding, its position is the first occurrence of
\* error_word, and the keyword test does not depend on error_word.
C9_CaseErrorRule ==
    Done =>
        LET ws == split(sentence)
            ce == FindingsOfType(result.errors, "case_error")
            occ == {k \in 1..Len(ws) : ws[k] = error_word}
        IN  /\ (ce # {}) <=> (occ # {} /\ KeywordTest(explanation))
            /\ Cardinality(ce) <= 1
            /\ \A k \in ce :
                  /\ k = Len(result.errors)
                  /\ result.errors[k].word = error_word
                  /\ result.errors[k].position + 1 \in occ
                  /\ \A j \in occ : result.errors[k].position + 1 <= j
            /\ LET expected == KeywordTest(explanation)
               IN  \A w \in {error_word, "", "partitiiv", "maja"} :
                      is_case_error(w, explanation) = expected

C9_Witness ==
    /\ Done
    /\ explanation = "Vale GENITIIV"
    /\ Cardinality({k \in 1..Len(split(sentence)) : split(sentence)[k] = error_word}) >= 2
    /\ \E k \in FindingsOfType(result.errors, "case_error") :
          result.errors[k].position >= 1 /\ Len(result.errors) >= 2

\* C10: a non-final token ending in "lik" or "kas" fails the case check with
\* any successor, so a case_agreement finding for that pair is emitted,
\* error_count is at least 2 and the verdict is not valid.
C10_LikKasAlwaysFlagged ==
    Done =>
        LET ws == split(sentence) IN
        \A k \in 1..(Len(ws) - 1) :
            (EndsWith(ws[k], "lik") \/ EndsWith(ws[k], "kas")) =>
                /\ is_adjective_noun_pair(ws[k], ws[k + 1])
                /\ ~check_case_agreement(ws[k], ws[k + 1])
                /\ \E b \in FindingsOfType(result.errors, "case_agreement") :
                      /\ result.errors[b].positions = <<k - 1, k>>
                      /\ result.errors[b].words = <<ws[k], ws[k + 1]>>
                /\ result.error_count >= 2
                /\ ~result.valid

C10_Witness ==
    /\ Done
    /\ \E k \in 1..(Len(split(sentence)) - 1) :
          /\ EndsWith(split(sentence)[k], "kas")
          /\ split(sentence)[k + 1] = "maja"
    /\ result.error_count = 2
    /\ ~result.valid

(***************************************************************************)
(* Properties of suggest_fix.  The flagged word is located as the code     *)
(* locates it: "the token preceding error_word" is the token before the    *)
(* first occurrence of error_word among the tokens of the sentence.        *)
(***************************************************************************)
Occurrences(ws, ew) == {k \in 1..Len(ws) : ws[k] = ew}

FirstOccurrence(ws, ew) ==
    CHOOSE k \in Occurrences(ws, ew) : \A j \in Occurrences(ws, ew) : k <= j

\* the token before the flagged word is p
PrecededBy(p) ==
    LET ws == split(sentence) IN
    /\ Occurrences(ws, error_word) # {}
    /\ FirstOccurrence(ws, error_word) > 1
    /\ ws[FirstOccurrence(ws, error_word) - 1] = p

KnownPronouns == {"ma", "sa", "ta", "me", "te", "nad"}

\* C3: when the token before error_word is "ma" (and error_word does not
\* end in "n") the suggestion is error_word + "n"; for "me" it is
\* error_word + "me", for "te" error_word + "te", for "nad" error_word + "vad".
C3_AppendLaw ==
    Done =>
        /\ (PrecededBy("ma") /\ ~EndsWith(error_word, "n"))
              => result = Str(error_word \o "n")
        /\ PrecededBy("me")  => result = Str(error_word \o "me")
        /\ PrecededBy("te")  => result = Str(error_word \o "te")
        /\ PrecededBy("nad") => result = Str(error_word \o "vad")

C3_Witness ==
    /\ Done
    /\ PrecededBy("ma")
    /\ Cardinality(Occurrences(split(sentence), error_word)) >= 2
    /\ result = Str(error_word \o "n")

\* C4: when the token before error_word is "ta" the suggestion is error_word
\* with one trailing "n" or "d" removed if it ends with one of them, and
\* error_word unchanged otherwise.
C4_StripOneSuffix ==
    (Done /\ PrecededBy("ta")) =>
        result = Str(IF EndsWith(error_word, "n") \/ EndsWith(error_word, "d")
                     THEN SubSeq(error_word, 1, Len(error_word) - 1)
                     ELSE error_word)

\* C5: no suggestion when error_word is not a token, when it has no
\* preceding token, and when the preceding token is not a known pronoun; the
\* outcome is always None or a string, a string only after a known pronoun.
C5_NoSuggestion ==
    Done =>
        LET ws == split(sentence)
            occ == Occurrences(ws, error_word)
        IN  /\ result = None \/ (result.is_none = FALSE /\ Len(result.value) >= 0)
            /\ occ = {} => result = None
            /\ (occ # {} /\ FirstOccurrence(ws, error_word) = 1) => result = None
            /\ (occ # {} /\ FirstOccurrence(ws, error_word) > 1
                   /\ ws[FirstOccurrence(ws, error_word) - 1] \notin KnownPronouns)
                  => result = None
            /\ result # None => \E p \in KnownPronouns : PrecededBy(p)

C5_Witness ==
    /\ Done
    /\ result = None
    /\ LET ws == split(sentence) IN
          /\ Len(ws) >= 2
          /\ ws[1] = error_word
          /\ ws[Len(ws)] \in KnownPronouns

(***************************************************************************)
(* Properties of _check_verb_agreement.                                    *)
(***************************************************************************)
\* the literal endings expected after each pronoun (sentinel left out)
LiteralEndings(p) ==
    CASE p = "ma"  -> {"n"}
      [] p = "sa"  -> {"d"}
      [] p = "ta"  -> {"b"}
      [] p = "me"  -> {"me"}
      [] p = "te"  -> {"te"}
      [] p = "nad" -> {"vad", "id"}

NoWrongEnding(v) ==
    \A e \in {"n", "d", "me", "te", "vad", "id"} : ~EndsWith(v, e)

\* C6: true for every pronoun outside the closed set; true for "ta" when the
\* verb ends with none of n, d, me, te, vad, id; in every other case true iff
\* the verb ends with a literal ending expected after the pronoun.
C6_VerbAgreementDecision ==
    Done =>
        /\ result \in BOOLEAN
        /\ pronoun \notin KnownPronouns => result = TRUE
        /\ (pronoun = "ta" /\ NoWrongEnding(verb)) => result = TRUE
        /\ (pronoun \in KnownPronouns /\ ~(pronoun = "ta" /\ NoWrongEnding(verb)))
              => (result <=> \E e \in LiteralEndings(pronoun) : EndsWith(verb, e))

C6_Witness ==
    Done /\ pronoun = "ta" /\ EndsWith(verb, "id") /\ result = FALSE

(***************************************************************************)
(* Properties of analyze_error_detection_quiz.                             *)
(***************************************************************************)
\* the text holds two quotes with at least one character, none of them a
\* quote, between them
HasQuotedSentence(q) ==
    \E i \in 1..Len(q) : \E j \in (i + 2)..Len(q) :
        /\ SubSeq(q, i, i) = "'"
        /\ SubSeq(q, j, j) = "'"
        /\ \A k \in (i + 1)..(j - 1) : SubSeq(q, k, k) # "'"

RecordHasQuotedSentence(r) == HasQuotedSentence(r.question)

\* C8: records without a quoted sentence are skipped and counted nowhere;
\* total_questions is the number of records with one, and equals
\* valid_questions + invalid_questions and the length of details; details
\* keep the input order; all_valid iff invalid_questions is 0.
C8_QuizAccounting ==
    Done =>
        LET kept == SelectSeq(Questions(quiz_data), RecordHasQuotedSentence) IN
        /\ result.total_questions = Len(kept)
        /\ result.total_questions = result.valid_questions + result.invalid_questions
        /\ result.total_questions = Len(result.details)
        /\ result.valid_questions =
              Cardinality({k \in 1..Len(result.details) :
                              result.details[k].validation.valid})
        /\ \A k \in 1..Len(result.details) :
              /\ result.details[k].question = kept[k].question
              /\ result.details[k].error_word = kept[k].correctAnswer
        /\ result.all_valid <=> (result.invalid_questions = 0)

C8_Witness ==
    /\ Done
    /\ Len(Questions(quiz_data)) = 3
    /\ result.total_questions = 2
    /\ result.valid_questions = 1
    /\ result.invalid_questions = 1
    /\ ~result.all_valid

====
